---- MODULE Spec2Model ----
(***************************************************************************)
(* A model of calcubot's bot.py: the `calc` command, do_calc (parse,      *)
(* reduce with lark's bottom-up Transformer, format) and the Interpreter  *)
(* callbacks, including the signal based timeout around every function    *)
(* invocation.                                                            *)
(*                                                                         *)
(* Numbers are exact rationals <<n, d>> (d > 0, lowest terms).  The input *)
(* literals are chosen so that every Decimal result is exactly            *)
(* representable within the default 28 digit context.  A native float is  *)
(* a rational rounded to FloatBits fractional bits.  The behaviour of the *)
(* callable handed to nargs (math.sin, math.factorial, ...) belongs to the *)
(* environment: per request an oracle says whether it returns a float,   *)
(* raises, or runs past the time budget.                                  *)
(***************************************************************************)
EXTENDS Integers, Sequences, FiniteSets, TLC

VARIABLES input, oracle, pc, tree, res, exc, call, msgs, branch,
          invoked, timedOut, alarm, running

vars == <<input, oracle, pc, tree, res, exc, call, msgs, branch,
          invoked, timedOut, alarm, running>>

(* ------------------------------ bounds -------------------------------- *)
MaxLit == 2
MaxArgs == 2
NumRequests == 2
FloatBits == 6

(* --------------------------- exact rationals -------------------------- *)
Abs(x) == IF x < 0 THEN -x ELSE x

RECURSIVE GCD(_, _)
GCD(a, b) == IF b = 0 THEN a ELSE GCD(b, a % b)

RNorm(n, d) ==
    LET g == GCD(Abs(n), Abs(d))
        s == IF d < 0 THEN -1 ELSE 1
    IN  <<(s * n) \div g, (s * d) \div g>>

Zero == <<0, 1>>
One == <<1, 1>>
RAdd(a, b) == RNorm(a[1] * b[2] + b[1] * a[2], a[2] * b[2])
RNeg(a) == <<-a[1], a[2]>>
RSub(a, b) == RAdd(a, RNeg(b))
RMul(a, b) == RNorm(a[1] * b[1], a[2] * b[2])
RDiv(a, b) == RNorm(a[1] * b[2], a[2] * b[1])
RLess(a, b) == a[1] * b[2] < b[1] * a[2]
RFloor(a) == a[1] \div a[2]
RTrunc(a) == IF a[1] < 0 THEN -((-a[1]) \div a[2]) ELSE a[1] \div a[2]
IsInt(a) == a[2] = 1

RECURSIVE RPowNat(_, _)
RPowNat(a, k) == IF k = 0 THEN One ELSE RMul(a, RPowNat(a, k - 1))

(* decimal.Decimal.__mod__: the remainder takes the sign of the dividend *)
DecimalMod(a, b) == RSub(a, RMul(b, <<RTrunc(RDiv(a, b)), 1>>))
(* float.__mod__: the remainder takes the sign of the divisor *)
FloatMod(a, b) == RSub(a, RMul(b, <<RFloor(RDiv(a, b)), 1>>))

(* float(x): nearest binary fraction with FloatBits fractional bits *)
ToFloat(q) ==
    LET S == 2 ^ FloatBits
    IN  RNorm((2 * q[1] * S + q[2]) \div (2 * q[2]), S)

(* sys.float_info.epsilon at the model's float width *)
Epsilon == <<1, 2 ^ (FloatBits - 1)>>

(* --------------------- parse trees and values ------------------------- *)
Tok(q) == [t |-> "tok", s |-> "NUMBER", v |-> q, ch |-> <<>>]
Name(s) == [t |-> "name", s |-> s, v |-> Zero, ch |-> <<>>]
Op(s) == [t |-> "op", s |-> s, v |-> Zero, ch |-> <<>>]
Val(ty, q) == [t |-> "val", s |-> ty, v |-> q, ch |-> <<>>]
Node(rule, ch) == [t |-> "node", s |-> rule, v |-> Zero, ch |-> ch]
NoTree == [t |-> "none", s |-> "", v |-> Zero, ch |-> <<>>]

IsNode(x) == x.t = "node"

(* Decimal(x) of a NUMBER token, a Decimal or a float is exact *)
Decimal(x) == x.v

Tail1(s) == SubSeq(s, 2, Len(s))

(* ----------------------------- exceptions ----------------------------- *)
Exc(type, what, fn, n, got, args) ==
    [type |-> type, what |-> what, fn |-> fn, n |-> n, got |-> got,
     args |-> args]
NoExc == Exc("none", "", "", 0, 0, <<>>)
Debug(args) == Exc("Debug", "", "debug", 0, 0, args)
InvalidStateError == Exc("InvalidStateError", "", "", 0, 0, <<>>)
DivisionByZero == Exc("DivisionByZero", "", "", 0, 0, <<>>)
InvalidOperation == Exc("InvalidOperation", "", "", 0, 0, <<>>)
IndexError == Exc("IndexError", "", "", 0, 0, <<>>)
ArityError(fn, n, got) == Exc("ValueError", "arity", fn, n, got, <<>>)
UnknownFunction(fn, a) == Exc("ValueError", "unknown", fn, 0, 0, <<a>>)
TookTooLong(fn) == Exc("ValueError", "timeout", fn, 0, 0, <<>>)
ImplError(type) == Exc(type, "impl", "", 0, 0, <<>>)

(* lark's VisitError(rule, obj, orig_exc) *)
VisitError(rule, obj, e) ==
    [wrapped |-> TRUE, rule |-> rule, obj |-> obj, orig_exc |-> e]
NoVisitError ==
    [wrapped |-> FALSE, rule |-> "", obj |-> NoTree, orig_exc |-> NoExc]

(* ------------------- Interpreter callbacks (lines 29-96) -------------- *)
(* A callback returns a value, raises, or (nargs) invokes a callable.     *)
Returns(v) == [k |-> "val", val |-> v, exc |-> NoExc, fn |-> "", args |-> <<>>]
Raises(e) == [k |-> "exc", val |-> NoTree, exc |-> e, fn |-> "", args |-> <<>>]
Invokes(fn, fargs) ==
    [k |-> "call", val |-> NoTree, exc |-> NoExc, fn |-> fn, args |-> fargs]

sum(args) ==
    IF args[2].s = "+"
    THEN Returns(Val("dec", RAdd(Decimal(args[1]), Decimal(args[3]))))
    ELSE IF args[2].s = "-"
    THEN Returns(Val("dec", RSub(Decimal(args[1]), Decimal(args[3]))))
    ELSE Raises(InvalidStateError)

DecimalDiv(a, b) ==
    IF b = Zero
    THEN IF a = Zero THEN Raises(InvalidOperation) ELSE Raises(DivisionByZero)
    ELSE Returns(Val("dec", RDiv(a, b)))

DecimalRem(a, b) ==
    IF b = Zero
    THEN Raises(InvalidOperation)
    ELSE Returns(Val("dec", DecimalMod(a, b)))

product(args) ==
    IF args[2].s = "*"
    THEN Returns(Val("dec", RMul(Decimal(args[1]), Decimal(args[3]))))
    ELSE IF args[2].s = "/"
    THEN DecimalDiv(Decimal(args[1]), Decimal(args[3]))
    ELSE IF args[2].s = "%"
    THEN DecimalRem(Decimal(args[1]), Decimal(args[3]))
    ELSE Raises(InvalidStateError)

(* Decimal ** Decimal for a non-negative integral exponent *)
power(args) ==
    LET b == Decimal(args[1])
        e == Decimal(args[2])
    IN  IF e = Zero /\ b = Zero
        THEN Raises(InvalidOperation)
        ELSE Returns(Val("dec", RPowNat(b, e[1])))

unary(args) ==
    IF args[1].s = "+"
    THEN Returns(Val("dec", Decimal(args[2])))
    ELSE Returns(Val("dec", RNeg(Decimal(args[2]))))

ArityOkLoose(n, args) == Len(args) <= n
ArityOk(n, args) == Len(args) = n

FloatArgs(args) == [i \in 1..Len(args) |-> Val("float", ToFloat(args[i].v))]

nargs(n, args, fn) ==
    IF ~ArityOk(n, args)
    THEN Raises(ArityError(fn, n, Len(args)))
    ELSE Invokes(fn, FloatArgs(args))

Unary1Fns == {"abs", "sin", "cos", "tan", "deg_to_rad", "rad_to_deg",
              "sqrt", "fact"}
Registered == Unary1Fns \cup {"log"}
Arity(fn) == IF fn = "log" THEN 2 ELSE 1

function_call(args) ==
    IF args[1].s \in Unary1Fns
    THEN nargs(1, Tail1(args), args[1].s)
    ELSE IF args[1].s = "log"
    THEN nargs(2, Tail1(args), "log")
    ELSE IF args[1].s = "debug"
    THEN Raises(Debug(Tail1(args)))
    ELSE IF Len(args) < 2
    THEN Raises(IndexError)
    ELSE Raises(UnknownFunction(args[1].s, args[2]))

(* Transformer._call_userfunc: dispatch on the rule name *)
Callback(node) ==
    CASE node.s = "sum" -> sum(node.ch)
      [] node.s = "product" -> product(node.ch)
      [] node.s = "power" -> power(node.ch)
      [] node.s = "unary" -> unary(node.ch)
      [] OTHER -> function_call(node.ch)

(* Transformer.transform visits bottom-up, children left to right: the    *)
(* next callback runs on the first node in post-order.                    *)
Reducible(t) == IsNode(t) /\ \A i \in 1..Len(t.ch) : ~IsNode(t.ch[i])
FirstNode(ch) == CHOOSE i \in 1..Len(ch) :
                    IsNode(ch[i]) /\ \A j \in 1..(i - 1) : ~IsNode(ch[j])

RECURSIVE Redex(_)
Redex(t) == IF Reducible(t) THEN t ELSE Redex(t.ch[FirstNode(t.ch)])

RECURSIVE Plug(_, _)
Plug(t, v) ==
    IF Reducible(t)
    THEN v
    ELSE LET i == FirstNode(t.ch)
         IN  [t EXCEPT !.ch[i] = Plug(t.ch[i], v)]

(* ------------------------- messages (ctx.send) ------------------------ *)
Msg(cat, e, args, frac, approx, fl) ==
    [cat |-> cat, exc |-> e, args |-> args, frac |-> frac, approx |-> approx,
     fl |-> fl]
MsgHelp == Msg("help", NoExc, <<>>, Zero, FALSE, Zero)
MsgParse == Msg("parse", NoExc, <<>>, Zero, FALSE, Zero)
MsgLex == Msg("lex", NoExc, <<>>, Zero, FALSE, Zero)
MsgEval(e) == Msg("eval", e, <<>>, Zero, FALSE, Zero)
MsgDebug(a) == Msg("debug", NoExc, <<a>>, Zero, FALSE, Zero)
MsgGeneric(e) == Msg("generic", e, <<>>, Zero, FALSE, Zero)
MsgAnswer(frac, approx, fl) == Msg("answer", NoExc, <<>>, frac, approx, fl)

(* do_calc, the except clauses of the second try (lines 114-126) *)
Handled(b, m) == [branch |-> b, send |-> <<m>>, crash |-> FALSE]
Propagates(b) == [branch |-> b, send |-> <<>>, crash |-> TRUE]

Handler(x) ==
    IF ~x.wrapped
    THEN IF x.orig_exc.type = "ValueError"
         THEN Handled("value_error", MsgEval(x.orig_exc))
         ELSE Propagates("none")
    ELSE IF x.orig_exc.type = "Debug"
    THEN IF Len(x.orig_exc.args) = 0
         THEN Propagates("debug")
         ELSE Handled("debug", MsgDebug(x.orig_exc.args[1]))
    ELSE IF x.orig_exc.type = "TimeoutError"
    THEN Handled("timeout", MsgEval(x.orig_exc))
    ELSE Handled("generic", MsgGeneric(x.orig_exc))

ExceptFallThrough(h) == IF h.crash THEN "crashed" ELSE "format"
ExceptNext(h) == IF h.crash THEN "crashed" ELSE "awaiting"

(* do_calc, the result formatter (lines 127-133) *)
Mod1(r) == IF r.s = "float" THEN FloatMod(r.v, One) ELSE DecimalMod(r.v, One)
ShowsApprox(r) ==
    RLess(Epsilon, Mod1(r)) /\ RLess(Epsilon, RSub(One, Mod1(r)))
Formatted(r) ==
    IF ShowsApprox(r)
    THEN [branch |-> "answer_both", msg |-> MsgAnswer(r.v, TRUE, ToFloat(r.v))]
    ELSE [branch |-> "answer_frac", msg |-> MsgAnswer(r.v, FALSE, Zero)]

(* --------------------------- inputs ----------------------------------- *)
(* What lark.parse makes of the joined text: an UnexpectedCharacters, a  *)
(* ParseError, a bare NUMBER token or a Tree; "empty" is `#calc` alone.  *)
Input(kind, t) == [kind |-> kind, tree |-> t]

IntToks == {Tok(<<n, 1>>) : n \in 0..MaxLit}
Toks == IntToks \cup {Tok(<<1, 2>>)}
Names == Registered \cup {"debug", "foo"}

Unary1 == {Node("unary", <<Op(s), a>>) : s \in {"+", "-"}, a \in Toks}
Sum1 == {Node("sum", <<a, Op(s), b>>) : s \in {"+", "-"}, a \in Toks, b \in Toks}
Prod1 == {Node("product", <<a, Op(s), b>>) :
            s \in {"*", "/", "%"}, a \in Toks, b \in Toks}
Div1 == {p \in Prod1 : p.ch[2].s = "/"}
Pow1 == {Node("power", <<a, b>>) : a \in IntToks, b \in IntToks}
ArgLists == UNION {[1..k -> Toks] : k \in 0..MaxArgs}
Call1 == {Node("function_call", <<Name(f)>> \o a) : f \in Names, a \in ArgLists}
CallOne == {Node("function_call", <<Name(f), a>>) :
              f \in {"abs", "fact", "debug", "foo"}, a \in IntToks}
Neg2 == {Node("unary", <<Op("-"), p>>) : p \in Div1}
CallDiv2 == {Node("function_call", <<Name(f), p>>) : f \in Names, p \in Div1}
CallSum2 == {Node("sum", <<c, Op("+"), Tok(<<1, 2>>)>>) : c \in CallOne}
CallCall2 == {Node("function_call", <<Name(f), c>>) :
                f \in {"abs", "debug", "foo"}, c \in CallOne}

PureTrees == Toks \cup Unary1 \cup Sum1 \cup Prod1 \cup Pow1 \cup Neg2
CallTrees == Call1 \cup CallDiv2 \cup CallSum2 \cup CallCall2

(* the callable's behaviour for one request *)
Oracle(slow, out, v) == [slow |-> slow, out |-> out, val |-> v]
FloatResults == {Zero, <<3, 2>>, <<-3, 2>>}
Oracles == {Oracle(TRUE, "ret", Zero)}
           \cup {Oracle(FALSE, "ret", v) : v \in FloatResults}
           \cup {Oracle(FALSE, e, Zero) : e \in {"ValueError", "TypeError"}}
DefaultOracle == Oracle(FALSE, "ret", Zero)

Cases ==
    {<<Input(k, NoTree), DefaultOracle>> : k \in {"empty", "lexerr", "parseerr"}}
    \cup {<<Input("tree", t), DefaultOracle>> : t \in PureTrees}
    \cup {<<Input("tree", t), o>> : t \in CallTrees, o \in Oracles}

Call(f, a) == Node("function_call", <<Name(f)>> \o a)
ConcCases ==
    {<<Input(k, NoTree), DefaultOracle>> : k \in {"empty", "lexerr", "parseerr"}}
    \cup {<<Input("tree", t), DefaultOracle>> :
            t \in {Tok(<<1, 2>>),
                   Node("product", <<Tok(One), Op("/"), Tok(Zero)>>),
                   Call("abs", <<Tok(One), Tok(One)>>),
                   Call("debug", <<Tok(One), Tok(Zero)>>),
                   Call("foo", <<Tok(One)>>)}}
    \cup {<<Input("tree", Call("sqrt", <<Tok(One)>>)), o>> :
            o \in {Oracle(TRUE, "ret", Zero), Oracle(FALSE, "ret", <<3, 2>>),
                   Oracle(FALSE, "ValueError", Zero)}}

(* ------------------------------ state --------------------------------- *)
NoCall == [fn |-> "", args |-> <<>>]

InitOn(R, C) ==
    /\ \E c \in [R -> C] :
          /\ input = [r \in R |-> c[r][1]]
          /\ oracle = [r \in R |-> c[r][2]]
    /\ pc = [r \in R |-> "idle"]
    /\ tree = [r \in R |-> NoTree]
    /\ res = [r \in R |-> NoTree]
    /\ exc = [r \in R |-> NoVisitError]
    /\ call = [r \in R |-> NoCall]
    /\ msgs = [r \in R |-> <<>>]
    /\ branch = [r \in R |-> "none"]
    /\ invoked = [r \in R |-> <<>>]
    /\ timedOut = [r \in R |-> FALSE]
    /\ alarm = 0
    /\ running = 0

Init == InitOn({1}, Cases)
InitConc == InitOn(1..NumRequests, ConcCases)

(* asyncio runs one coroutine at a time and switches only at an await *)
MayRunAlways(r) == TRUE
MayRun(r) == running \in {0, r}

(* @timeout(seconds=5): signal.setitimer(ITIMER_REAL, 5), process wide *)
NoTimer(r) == 0
ArmTimer(r) == r

Send(r, b, m, next) ==
    /\ msgs' = [msgs EXCEPT ![r] = Append(@, m)]
    /\ branch' = [branch EXCEPT ![r] = b]
    /\ pc' = [pc EXCEPT ![r] = next]
    /\ running' = 0

(* calc (lines 143-149) *)
Calc(r) ==
    /\ pc[r] = "idle"
    /\ MayRun(r)
    /\ IF input[r].kind = "empty"
       THEN Send(r, "help", MsgHelp, "awaiting")
       ELSE /\ pc' = [pc EXCEPT ![r] = "parse"]
            /\ running' = r
            /\ UNCHANGED <<msgs, branch>>
    /\ UNCHANGED <<input, oracle, tree, res, exc, call, invoked, timedOut, alarm>>

(* do_calc, first try (lines 101-108) *)
Parse(r) ==
    /\ pc[r] = "parse"
    /\ MayRun(r)
    /\ CASE input[r].kind = "parseerr" ->
              /\ Send(r, "parse_error", MsgParse, "awaiting")
              /\ UNCHANGED tree
         [] input[r].kind = "lexerr" ->
              /\ Send(r, "unexpected_chars", MsgLex, "awaiting")
              /\ UNCHANGED tree
         [] OTHER ->
              /\ tree' = [tree EXCEPT ![r] = input[r].tree]
              /\ pc' = [pc EXCEPT ![r] = "transform"]
              /\ running' = r
              /\ UNCHANGED <<msgs, branch>>
    /\ UNCHANGED <<input, oracle, res, exc, call, invoked, timedOut, alarm>>

(* Interpreter().transform(parsed): one callback (line 111) *)
Visit(r) ==
    /\ pc[r] = "transform"
    /\ MayRun(r)
    /\ IsNode(tree[r])
    /\ LET node == Redex(tree[r])
           c == Callback(node)
       IN  CASE c.k = "val" ->
                  /\ tree' = [tree EXCEPT ![r] = Plug(@, c.val)]
                  /\ UNCHANGED <<pc, exc, call, invoked, alarm>>
             [] c.k = "exc" ->
                  /\ exc' = [exc EXCEPT ![r] = VisitError(node.s, node, c.exc)]
                  /\ pc' = [pc EXCEPT ![r] = "except"]
                  /\ UNCHANGED <<tree, call, invoked, alarm>>
             [] OTHER ->
                  /\ call' = [call EXCEPT ![r] = [fn |-> c.fn, args |-> c.args]]
                  /\ invoked' = [invoked EXCEPT ![r] =
                                   Append(@, [fn |-> c.fn, args |-> c.args])]
                  /\ alarm' = ArmTimer(r)
                  /\ pc' = [pc EXCEPT ![r] = "call"]
                  /\ UNCHANGED <<tree, exc>>
    /\ running' = r
    /\ UNCHANGED <<input, oracle, res, msgs, branch, timedOut>>

(* caller(f, args) returns within the budget (lines 86-91) *)
ImplReturn(r) ==
    /\ pc[r] = "call"
    /\ MayRun(r)
    /\ ~oracle[r].slow
    /\ oracle[r].out = "ret"
    /\ tree' = [tree EXCEPT ![r] = Plug(@, Val("float", oracle[r].val))]
    /\ pc' = [pc EXCEPT ![r] = "transform"]
    /\ alarm' = 0
    /\ running' = r
    /\ UNCHANGED <<input, oracle, res, exc, call, msgs, branch, invoked, timedOut>>

(* f raises within the budget; nargs does not catch it *)
ImplRaise(r) ==
    /\ pc[r] = "call"
    /\ MayRun(r)
    /\ ~oracle[r].slow
    /\ oracle[r].out # "ret"
    /\ exc' = [exc EXCEPT ![r] =
                 VisitError("function_call", Redex(tree[r]),
                            ImplError(oracle[r].out))]
    /\ pc' = [pc EXCEPT ![r] = "except"]
    /\ alarm' = 0
    /\ running' = r
    /\ UNCHANGED <<input, oracle, tree, res, call, msgs, branch, invoked, timedOut>>

(* SIGALRM while a call is executing: the decorator's TimeoutError is     *)
(* caught by nargs and re-raised as a ValueError (lines 92-96)            *)
TimerExpire(r) ==
    /\ pc[r] = "call"
    /\ MayRun(r)
    /\ alarm # 0
    /\ oracle[alarm].slow
    /\ timedOut' = [timedOut EXCEPT ![r] = TRUE]
    /\ exc' = [exc EXCEPT ![r] =
                 VisitError("function_call", Redex(tree[r]),
                            TookTooLong(call[r].fn))]
    /\ pc' = [pc EXCEPT ![r] = "except"]
    /\ alarm' = 0
    /\ running' = r
    /\ UNCHANGED <<input, oracle, tree, res, call, msgs, branch, invoked>>

(* transform returned, or the parse result is a bare token (lines 110-113) *)
Transformed(r) ==
    /\ pc[r] = "transform"
    /\ MayRun(r)
    /\ ~IsNode(tree[r])
    /\ res' = [res EXCEPT ![r] =
                 IF tree[r].t = "tok" THEN Val("dec", Decimal(tree[r]))
                 ELSE tree[r]]
    /\ pc' = [pc EXCEPT ![r] = "format"]
    /\ running' = r
    /\ UNCHANGED <<input, oracle, tree, exc, call, msgs, branch, invoked,
                   timedOut, alarm>>

(* the except clauses (lines 114-126) *)
Except(r) ==
    /\ pc[r] = "except"
    /\ MayRun(r)
    /\ LET h == Handler(exc[r])
       IN  /\ msgs' = [msgs EXCEPT ![r] = @ \o h.send]
           /\ branch' = [branch EXCEPT ![r] = h.branch]
           /\ pc' = [pc EXCEPT ![r] = ExceptNext(h)]
    /\ running' = 0
    /\ UNCHANGED <<input, oracle, tree, res, exc, call, invoked, timedOut, alarm>>

(* the result formatter (lines 127-133) *)
Format(r) ==
    /\ pc[r] = "format"
    /\ MayRun(r)
    /\ Send(r, Formatted(res[r]).branch, Formatted(res[r]).msg, "awaiting")
    /\ UNCHANGED <<input, oracle, tree, res, exc, call, invoked, timedOut, alarm>>

(* the awaited ctx.send completes and the handler returns *)
Resume(r) ==
    /\ pc[r] = "awaiting"
    /\ MayRun(r)
    /\ pc' = [pc EXCEPT ![r] = "done"]
    /\ running' = 0
    /\ UNCHANGED <<input, oracle, tree, res, exc, call, msgs, branch, invoked,
                   timedOut, alarm>>

Next ==
    \E r \in DOMAIN pc :
        \/ Calc(r)
        \/ Parse(r)
        \/ Visit(r)
        \/ ImplReturn(r)
        \/ ImplRaise(r)
        \/ TimerExpire(r)
        \/ Transformed(r)
        \/ Except(r)
        \/ Format(r)
        \/ Resume(r)

Spec == Init /\ [][Next]_vars
SpecConc == InitConc /\ [][Next]_vars

(* the OS delivers SIGALRM and a running callable makes progress *)
Fairness ==
    \A r \in {1} :
        /\ WF_vars(ImplReturn(r))
        /\ WF_vars(ImplRaise(r))
        /\ WF_vars(TimerExpire(r))
FairSpec == Init /\ [][Next]_vars /\ Fairness

(* ============================ properties ============================== *)
Requests == DOMAIN pc
Finished(r) == pc[r] \in {"done", "crashed"}
IsCallTo(node, names) ==
    IsNode(node) /\ node.s = "function_call" /\ node.ch[1].s \in names
Mismatch(node) ==
    IsCallTo(node, Registered) /\ Len(node.ch) - 1 # Arity(node.ch[1].s)
HasMsg(r, cat) == \E i \in 1..Len(msgs[r]) : msgs[r][i].cat = cat

(* C1: a call of a registered fixed-arity function with an argument count *)
(* other than its arity raises a ValueError naming the function, the      *)
(* arity and the count, and the callable is not invoked.                  *)
C1_ArityMismatchRaises ==
    [][\A r \in Requests :
          (/\ pc[r] = "transform"
           /\ IsNode(tree[r])
           /\ Mismatch(Redex(tree[r]))
           /\ <<pc[r], tree[r]>> # <<pc'[r], tree'[r]>>)
          => LET node == Redex(tree[r])
                 fn == node.ch[1].s
             IN  /\ pc'[r] = "except"
                 /\ exc'[r].orig_exc =
                       ArityError(fn, Arity(fn), Len(node.ch) - 1)
                 /\ invoked'[r] = invoked[r]
                 /\ alarm' = alarm]_vars

C1_Witness ==
    \E r \in Requests :
        /\ pc[r] = "except"
        /\ exc[r].orig_exc.what = "arity"
        /\ exc[r].orig_exc.fn = "log"
        /\ exc[r].orig_exc.got = 1
        /\ invoked[r] = <<>>

(* C2: a function invocation that exceeds its budget fails with an error *)
(* of kind TimeoutError naming the function, and do_calc handles it in    *)
(* its TimeoutError branch.                                               *)
C2_TimeoutIsTimeoutError ==
    \A r \in Requests :
        timedOut[r] =>
            /\ exc[r].orig_exc.type = "TimeoutError"
            /\ exc[r].orig_exc.fn = call[r].fn
            /\ (pc[r] \in {"awaiting", "done"} => branch[r] = "timeout")

(* C3: every function invocation the evaluator starts eventually returns *)
(* control: the callable finishes, or the timer ends the call.            *)
C3_CallReturns == \A r \in {1} : (pc[r] = "call") ~> (pc[r] # "call")

C3_Witness ==
    \E r \in Requests : pc[r] = "except" /\ timedOut[r] /\ alarm = 0

(* C4: evaluations that end in different kinds among LexError,            *)
(* ParseError, ValueError, TimeoutError and DebugSignal take different    *)
(* branches of do_calc and send messages of different categories.         *)
Kind(r) ==
    CASE input[r].kind = "lexerr" -> "LexError"
      [] input[r].kind = "parseerr" -> "ParseError"
      [] timedOut[r] -> "TimeoutError"
      [] exc[r].orig_exc.type = "Debug" -> "DebugSignal"
      [] exc[r].orig_exc.type = "ValueError" -> "ValueError"
      [] OTHER -> "other"

C4_KindsDistinguished ==
    \A r1 \in Requests, r2 \in Requests :
        (/\ pc[r1] = "done" /\ pc[r2] = "done"
         /\ Kind(r1) # "other" /\ Kind(r2) # "other"
         /\ Kind(r1) # Kind(r2))
        => /\ branch[r1] # branch[r2]
           /\ msgs[r1][1].cat # msgs[r2][1].cat

(* C5: debug(a1, ..., an) always ends in a DebugSignal whose complete,    *)
(* unevaluated argument list reaches the caller.                          *)
C5_DebugCarriesAllArgs ==
    \A r \in Requests :
        (/\ input[r].kind = "tree"
         /\ IsCallTo(input[r].tree, {"debug"})
         /\ Finished(r))
        => /\ branch[r] = "debug"
           /\ Len(msgs[r]) = 1
           /\ msgs[r][1].cat = "debug"
           /\ msgs[r][1].args = Tail1(input[r].tree.ch)

(* C6: once parsing or reduction has failed, or debug was raised, the     *)
(* formatter is never reached and no answer is sent; an answer is sent    *)
(* only after the parse succeeded and the whole tree was reduced.         *)
Failed(r) == input[r].kind \in {"lexerr", "parseerr"} \/ exc[r].wrapped

C6_FailureAbortsLaterStages ==
    \A r \in Requests :
        /\ Failed(r) => /\ pc[r] # "format"
                        /\ res[r] = NoTree
                        /\ ~HasMsg(r, "answer")
        /\ HasMsg(r, "answer") => /\ input[r].kind = "tree"
                                  /\ tree[r].t \in {"tok", "val"}
                                  /\ Len(msgs[r]) = 1

C6_Witness ==
    \E r \in Requests :
        /\ pc[r] = "done"
        /\ exc[r].wrapped
        /\ invoked[r] # <<>>
        /\ msgs[r][1].cat = "generic"

(* C7: dividing or taking the modulo by zero in product fails with a      *)
(* ValueError that do_calc reports as an evaluation error.                *)
C7_DivisionByZeroIsValueError ==
    \A r \in Requests :
        (/\ exc[r].wrapped
         /\ exc[r].rule = "product"
         /\ exc[r].obj.ch[2].s \in {"/", "%"}
         /\ Decimal(exc[r].obj.ch[3]) = Zero)
        => /\ exc[r].orig_exc.type = "ValueError"
           /\ (pc[r] = "done" => msgs[r][1].cat = "eval")

(* C8: a call of a name that is neither registered nor debug fails with   *)
(* a ValueError reporting an unknown function, whatever the number of     *)
(* arguments.                                                             *)
C8_UnknownFunctionIsValueError ==
    \A r \in Requests :
        (/\ exc[r].wrapped
         /\ IsNode(exc[r].obj)
         /\ exc[r].obj.s = "function_call"
         /\ exc[r].obj.ch[1].s \notin (Registered \cup {"debug"}))
        => /\ exc[r].orig_exc.type = "ValueError"
           /\ exc[r].orig_exc.what = "unknown"

(* C9: under every interleaving of concurrent requests, each request      *)
(* sends exactly the messages it sends when it runs alone, and no other   *)
(* request runs while one holds intermediate state.                       *)
FirstFailed(kids) ==
    CHOOSE i \in 1..Len(kids) :
        ~kids[i].ok /\ \A j \in 1..(i - 1) : kids[j].ok

RECURSIVE Alone(_, _)
Alone(t, o) ==
    IF ~IsNode(t)
    THEN [ok |-> TRUE, val |-> t, exc |-> NoVisitError]
    ELSE LET kids == [i \in 1..Len(t.ch) |-> Alone(t.ch[i], o)]
         IN  IF \E i \in 1..Len(kids) : ~kids[i].ok
             THEN kids[FirstFailed(kids)]
             ELSE LET node == [t EXCEPT !.ch = [i \in 1..Len(kids) |-> kids[i].val]]
                      c == Callback(node)
                      fail(e) == [ok |-> FALSE, val |-> NoTree,
                                  exc |-> VisitError(node.s, node, e)]
                  IN  CASE c.k = "val" ->
                             [ok |-> TRUE, val |-> c.val, exc |-> NoVisitError]
                        [] c.k = "exc" -> fail(c.exc)
                        [] OTHER ->
                             IF o.slow THEN fail(TookTooLong(c.fn))
                             ELSE IF o.out = "ret"
                             THEN [ok |-> TRUE, val |-> Val("float", o.val),
                                   exc |-> NoVisitError]
                             ELSE fail(ImplError(o.out))

AloneMsgs(in, o) ==
    CASE in.kind = "empty" -> <<MsgHelp>>
      [] in.kind = "lexerr" -> <<MsgLex>>
      [] in.kind = "parseerr" -> <<MsgParse>>
      [] OTHER ->
           LET b == Alone(in.tree, o)
           IN  IF b.ok
               THEN <<Formatted(Val(IF b.val.t = "tok" THEN "dec" ELSE b.val.s,
                                    b.val.v)).msg>>
               ELSE Handler(b.exc).send

C9_ConcurrentAsAlone ==
    \A r \in Requests :
        /\ pc[r] \in {"awaiting", "done", "crashed"}
              => msgs[r] = AloneMsgs(input[r], oracle[r])
        /\ pc[r] \in {"idle", "parse", "transform", "call", "except", "format"}
              => msgs[r] = <<>>
        /\ pc[r] \in {"parse", "transform", "call", "except", "format"}
              => running = r

C9_Witness ==
    \E r1 \in Requests, r2 \in Requests :
        /\ r1 # r2
        /\ pc[r1] = "awaiting"
        /\ timedOut[r1]
        /\ pc[r2] = "call"
        /\ ~oracle[r2].slow

(* C10: the formatter shows the approximate decimal exactly when v mod 1  *)
(* and 1 - (v mod 1) both exceed epsilon, and a fraction shown alone is   *)
(* an integer.                                                            *)
ModOne(q) == RSub(q, <<RFloor(q), 1>>)

C10_FractionAloneIsInteger ==
    \A r \in Requests :
        HasMsg(r, "answer") =>
            LET m == msgs[r][1]
                v == res[r].v
            IN  /\ m.approx <=> (/\ RLess(Epsilon, ModOne(v))
                                 /\ RLess(Epsilon, RSub(One, ModOne(v))))
                /\ (~m.approx => IsInt(m.frac))

====
